---- MODULE Spec2Model ----
(***************************************************************************)
(* A model of the DPoS core of happyChain:                                 *)
(*   - core/types DposContext (five tries, snapshot, commit, root digest), *)
(*   - consensus/dpos Dpos (seal verification, confirmation tracker).      *)
(* Byte strings are sequences of integers.  An address (20 bytes in the    *)
(* code) is one symbol, so Bytes(a) = <<a>> and candidate ++ delegator is  *)
(* a two-symbol key.                                                       *)
(***************************************************************************)
EXTENDS Integers, Sequences, FiniteSets, TLC

(* ------------------------------ bounds -------------------------------- *)
NumAddr == 2
MaxMintCnt == 1
HeapSlots == 3
MaxBlocks == 3
MaxMissing == 1
MaxTime == 30
MaxInterval == 10
MaxMinted == 4
MaxAuth == 2
MaxBatch == 2

\* the accounts that register, vote and are voted for
Addrs == 1..NumAddr
\* the account whose rows change between a snapshot and a revert
SnapAddrs == {1}
\* the validator lists SetValidators is called with
ValidatorLists == {<< 1, 2 >>, << 2, 1 >>}
\* the validator whose blocks are counted
MintValidators == {1}
\* the addresses of trie objects
Slots == 1..HeapSlots

(* --------------------------- byte strings ----------------------------- *)
Nil == << >>

Bytes(a) == << a >>

\* "validator" in ASCII, the fixed key of the epoch trie
ValidatorKey == << 118, 97, 108, 105, 100, 97, 116, 111, 114 >>

\* the quotient of Go's integers: it truncates toward zero
Quo(a, b) ==
    LET q == (IF a < 0 THEN -a ELSE a) \div (IF b < 0 THEN -b ELSE b)
    IN IF (a < 0) # (b < 0) THEN -q ELSE q

Min2(a, b) == IF a < b THEN a ELSE b

\* bytes.Compare(a, b) < 0
LexLess(a, b) ==
    \/ \E i \in 1..Min2(Len(a), Len(b)) :
          /\ \A j \in 1..(i - 1) : a[j] = b[j]
          /\ a[i] < b[i]
    \/ /\ Len(a) < Len(b)
       /\ \A j \in 1..Len(a) : a[j] = b[j]

HasPrefix(k, p) == /\ Len(p) <= Len(k)
                   /\ \A j \in 1..Len(p) : k[j] = p[j]

RECURSIVE SortKeys(_)
SortKeys(S) ==
    IF S = {} THEN << >>
    ELSE LET m == CHOOSE k \in S : \A o \in S \ {k} : LexLess(k, o)
         IN << m >> \o SortKeys(S \ {m})

RECURSIVE Flatten(_)
Flatten(ss) == IF ss = << >> THEN << >> ELSE Head(ss) \o Flatten(Tail(ss))

(* ------------------------- trie (key -> value) ------------------------ *)
EmptyTrie == << >>

TryGet(t, key) == IF key \in DOMAIN t THEN t[key] ELSE Nil

TryDelete(t, key) == [k \in (DOMAIN t) \ {key} |-> t[k]]

\* an empty value deletes the key
TryUpdate(t, key, value) ==
    IF Len(value) = 0 THEN TryDelete(t, key)
    ELSE [k \in (DOMAIN t) \cup {key} |-> IF k = key THEN value ELSE t[k]]

\* the leaves whose key starts with prefix, in key order: their values
PrefixIterator(t, prefix) ==
    LET keys == SortKeys({k \in DOMAIN t : HasPrefix(k, prefix)})
    IN [i \in 1..Len(keys) |-> t[keys[i]]]

\* NodeIterator(start).Next(): is there a leaf at or after start
NodeIteratorNext(t, start) == \E k \in DOMAIN t : ~LexLess(k, start)

\* the root hash: a collision-free function of the key/value contents
TrieHash(t) ==
    LET keys == SortKeys(DOMAIN t)
    IN << Len(keys) >> \o
       Flatten([i \in 1..Len(keys) |->
                  << Len(keys[i]) >> \o keys[i] \o << Len(t[keys[i]]) >> \o t[keys[i]]])

\* rlp of a byte string shorter than 56 bytes: 0x80+len, then the bytes
RlpBytes(b) == << 128 + Len(b) >> \o b

\* rlp of a list of addresses: 0xc0+len of the payload, then the items
RlpAddrList(vs) ==
    LET payload == Flatten([i \in 1..Len(vs) |-> RlpBytes(Bytes(vs[i]))])
    IN << 192 + Len(payload) >> \o payload

\* Keccak-256 as a collision-free digest of its input
Keccak256(x) == << Len(x) >> \o x

\* binary.BigEndian.PutUint64: eight bytes in the code, one symbol here
PutUint64(n) == << n >>

Uint64(b) == b[1]

(* ----------------------------- DposContext ---------------------------- *)
TrieNames == {"epochTrie", "delegateTrie", "voteTrie", "candidateTrie", "mintCntTrie"}

\* NewDposContext: five tries at the empty root
NewDposContext == [n \in TrieNames |-> EmptyTrie]

ErrNone == "nil"
MissingNodeError == "missing trie node"
ErrStorage == "storage error"
ErrInvalidCandidateToDelegate == "invalid candidate to delegate"
ErrInvalidCandidateToUnDelegate == "invalid candidate to undelegate"
ErrMismatchCandidateToUnDelegate == "mismatch candidate to undelegate"

\* which trie call of an operation fails (0: none), and how
NoFault == [at |-> 0, kind |-> ErrNone]

Result(c, err) == [c |-> c, err |-> err]

BecomeCandidate(c, candidateAddr, flt) ==
    LET candidate == Bytes(candidateAddr)
    IN IF flt.at = 1 THEN Result(c, flt.kind)
       ELSE Result([c EXCEPT !.candidateTrie = TryUpdate(@, candidate, candidate)], ErrNone)

\* mutant: the kick-out removes the candidate and leaves its delegate rows and votes
KickoutLoopNoCascade(c, iter, candidate, n, flt) == Result(c, ErrNone)

RECURSIVE KickoutLoop(_, _, _, _, _)
KickoutLoop(c, iter, candidate, n, flt) ==
    IF iter = << >> THEN Result(c, ErrNone)
    ELSE
      LET delegator == Head(iter)
          key == candidate \o delegator
          f1 == flt.at = n + 1
      IN IF f1 /\ flt.kind # MissingNodeError THEN Result(c, flt.kind)
         ELSE
           LET c1 == IF f1 THEN c ELSE [c EXCEPT !.delegateTrie = TryDelete(@, key)]
               f2 == flt.at = n + 2
           IN IF f2 /\ flt.kind # MissingNodeError THEN Result(c1, flt.kind)
              ELSE
                LET v == IF f2 THEN Nil ELSE TryGet(c1.voteTrie, delegator)
                    del == ~f2 /\ v = candidate
                    n3 == IF del THEN n + 3 ELSE n + 2
                    f3 == del /\ flt.at = n3
                IN IF f3 /\ flt.kind # MissingNodeError THEN Result(c1, flt.kind)
                   ELSE
                     LET c2 == IF del /\ ~f3
                               THEN [c1 EXCEPT !.voteTrie = TryDelete(@, delegator)]
                               ELSE c1
                     IN KickoutLoop(c2, Tail(iter), candidate, n3, flt)

\* mutant: the kick-out ends on any error of the candidate delete
KickoutAbortsOnMissing(c, candidateAddr, flt) ==
    LET candidate == Bytes(candidateAddr)
        c1 == [c EXCEPT !.candidateTrie = TryDelete(@, candidate)]
    IN IF flt.at = 1 THEN Result(c, flt.kind)
       ELSE KickoutLoop(c1, PrefixIterator(c1.delegateTrie, candidate), candidate, 1, flt)

\* mutant: the kick-out takes the vote of the first voter only
KickoutFirstVoter(c, candidateAddr, flt) ==
    LET candidate == Bytes(candidateAddr)
        c1 == [c EXCEPT !.candidateTrie = TryDelete(@, candidate)]
        iter == PrefixIterator(c1.delegateTrie, candidate)
    IN KickoutLoop(c1, SubSeq(iter, 1, Min2(1, Len(iter))), candidate, 1, flt)

KickoutCandidate(c, candidateAddr, flt) ==
    LET candidate == Bytes(candidateAddr)
        f1 == flt.at = 1
    IN IF f1 /\ flt.kind # MissingNodeError THEN Result(c, flt.kind)
       ELSE
         LET c1 == IF f1 THEN c ELSE [c EXCEPT !.candidateTrie = TryDelete(@, candidate)]
             iter == PrefixIterator(c1.delegateTrie, candidate)
         IN KickoutLoop(c1, iter, candidate, 1, flt)

\* mutant: a vote for anyone is taken, candidate or not
DelegateAnyCandidate(c, delegatorAddr, candidateAddr, flt) ==
    LET delegator == Bytes(delegatorAddr)
        candidate == Bytes(candidateAddr)
    IN Result([c EXCEPT
                 !.delegateTrie = TryUpdate(@, candidate \o delegator, delegator),
                 !.voteTrie = TryUpdate(@, delegator, candidate)], ErrNone)

\* mutant: a re-vote removes the vote and leaves the new one unwritten
DelegateForgetsVote(c, delegatorAddr, candidateAddr, flt) ==
    LET delegator == Bytes(delegatorAddr)
        candidate == Bytes(candidateAddr)
    IN IF TryGet(c.candidateTrie, candidate) = Nil
       THEN Result(c, ErrInvalidCandidateToDelegate)
       ELSE Result([c EXCEPT
                      !.delegateTrie =
                          TryUpdate(TryDelete(@, TryGet(c.voteTrie, delegator) \o delegator),
                                    candidate \o delegator, delegator),
                      !.voteTrie = TryDelete(@, delegator)], ErrNone)

\* mutant: a re-vote keeps the delegate row of the previous candidate
DelegateKeepsOld(c, delegatorAddr, candidateAddr, flt) ==
    LET delegator == Bytes(delegatorAddr)
        candidate == Bytes(candidateAddr)
    IN IF TryGet(c.candidateTrie, candidate) = Nil
       THEN Result(c, ErrInvalidCandidateToDelegate)
       ELSE Result([c EXCEPT
                      !.delegateTrie = TryUpdate(@, candidate \o delegator, delegator),
                      !.voteTrie = TryUpdate(@, delegator, candidate)], ErrNone)

Delegate(c, delegatorAddr, candidateAddr, flt) ==
    LET delegator == Bytes(delegatorAddr)
        candidate == Bytes(candidateAddr)
    IN IF flt.at = 1 THEN Result(c, flt.kind)
       ELSE IF TryGet(c.candidateTrie, candidate) = Nil
       THEN Result(c, ErrInvalidCandidateToDelegate)
       ELSE IF flt.at = 2 /\ flt.kind # MissingNodeError THEN Result(c, flt.kind)
       ELSE
         LET oldCandidate == IF flt.at = 2 THEN Nil ELSE TryGet(c.voteTrie, delegator)
             hasOld == oldCandidate # Nil
             \* delegateTrie.Delete: a failure is logged, not returned
             c1 == IF hasOld /\ flt.at # 3
                   THEN [c EXCEPT !.delegateTrie = TryDelete(@, oldCandidate \o delegator)]
                   ELSE c
             n == IF hasOld THEN 3 ELSE 2
         IN IF flt.at = n + 1 THEN Result(c1, flt.kind)
            ELSE
              LET c2 == [c1 EXCEPT !.delegateTrie =
                                      TryUpdate(@, candidate \o delegator, delegator)]
              IN IF flt.at = n + 2 THEN Result(c2, flt.kind)
                 ELSE Result([c2 EXCEPT !.voteTrie = TryUpdate(@, delegator, candidate)],
                             ErrNone)

\* mutant: the vote is withdrawn from whatever candidate holds it
UnDelegateAnyCandidate(c, delegatorAddr, candidateAddr, flt) ==
    LET delegator == Bytes(delegatorAddr)
        candidate == Bytes(candidateAddr)
    IN IF TryGet(c.candidateTrie, candidate) = Nil
       THEN Result(c, ErrInvalidCandidateToUnDelegate)
       ELSE Result([c EXCEPT
                      !.delegateTrie = TryDelete(@, candidate \o delegator),
                      !.voteTrie = TryDelete(@, delegator)], ErrNone)

UnDelegate(c, delegatorAddr, candidateAddr, flt) ==
    LET delegator == Bytes(delegatorAddr)
        candidate == Bytes(candidateAddr)
    IN IF flt.at = 1 THEN Result(c, flt.kind)
       ELSE IF TryGet(c.candidateTrie, candidate) = Nil
       THEN Result(c, ErrInvalidCandidateToUnDelegate)
       ELSE IF flt.at = 2 THEN Result(c, flt.kind)
       ELSE IF candidate # TryGet(c.voteTrie, delegator)
       THEN Result(c, ErrMismatchCandidateToUnDelegate)
       ELSE IF flt.at = 3 THEN Result(c, flt.kind)
       ELSE
         LET c1 == [c EXCEPT !.delegateTrie = TryDelete(@, candidate \o delegator)]
         IN IF flt.at = 4 THEN Result(c1, flt.kind)
            ELSE Result([c1 EXCEPT !.voteTrie = TryDelete(@, delegator)], ErrNone)

\* epochTrie.Update: a failure is logged, not returned
SetValidators(c, validators, flt) ==
    IF flt.at = 1 THEN Result(c, ErrNone)
    ELSE Result([c EXCEPT !.epochTrie = TryUpdate(@, ValidatorKey, RlpAddrList(validators))],
                ErrNone)


\* the digest over the five trie roots: epoch, delegate, candidate, vote, mintCnt
Root(c) ==
    Keccak256(RlpBytes(TrieHash(c.epochTrie)) \o
              RlpBytes(TrieHash(c.delegateTrie)) \o
              RlpBytes(TrieHash(c.candidateTrie)) \o
              RlpBytes(TrieHash(c.voteTrie)) \o
              RlpBytes(TrieHash(c.mintCntTrie)))

ToProto(c) ==
    [EpochHash     |-> TrieHash(c.epochTrie),
     DelegateHash  |-> TrieHash(c.delegateTrie),
     CandidateHash |-> TrieHash(c.candidateTrie),
     VoteHash      |-> TrieHash(c.voteTrie),
     MintCntHash   |-> TrieHash(c.mintCntTrie)]

\* mutant: the proto digest takes the roots in the order of Commit's trie commits
ProtoRootCommitOrder(p) ==
    Keccak256(RlpBytes(p.EpochHash) \o
              RlpBytes(p.DelegateHash) \o
              RlpBytes(p.VoteHash) \o
              RlpBytes(p.CandidateHash) \o
              RlpBytes(p.MintCntHash))

ProtoRoot(p) ==
    Keccak256(RlpBytes(p.EpochHash) \o
              RlpBytes(p.DelegateHash) \o
              RlpBytes(p.CandidateHash) \o
              RlpBytes(p.VoteHash) \o
              RlpBytes(p.MintCntHash))

\* what a call that returns no proto leaves in the result
NilProto ==
    [EpochHash |-> Nil, DelegateHash |-> Nil, CandidateHash |-> Nil,
     VoteHash |-> Nil, MintCntHash |-> Nil]

\* the order of the trie.Commit calls of Commit
CommitOrder == << "epochTrie", "delegateTrie", "voteTrie", "candidateTrie", "mintCntTrie" >>

\* mutant: the roots are flushed in the order the tries were committed
FlushInCommitOrder == << "epochTrie", "delegateTrie", "voteTrie", "candidateTrie", "mintCntTrie" >>

\* the order of the db.Commit calls of Commit
FlushOrder == << "epochTrie", "delegateTrie", "candidateTrie", "voteTrie", "mintCntTrie" >>

\* mutant: the root is written back under its own key
WriteBackRoot(t) == TryUpdate(t, TrieHash(t), TrieHash(t))

\* trie.TryUpdate(root[:], trie.Get(root[:])) after the trie's commit
WriteBack(t) == TryUpdate(t, TrieHash(t), TryGet(t, TrieHash(t)))

RECURSIVE CommitTries(_, _, _, _, _)
CommitTries(c, i, roots, log, flt) ==
    IF i > Len(CommitOrder) THEN [c |-> c, err |-> ErrNone, roots |-> roots, log |-> log]
    ELSE IF flt.at = i THEN [c |-> c, err |-> flt.kind, roots |-> roots, log |-> log]
    ELSE LET name == CommitOrder[i]
         IN CommitTries([c EXCEPT ![name] = WriteBack(@)], i + 1,
                        [roots EXCEPT ![name] = TrieHash(c[name])],
                        Append(log, << "commit", name >>), flt)

Commit(c, flt) ==
    LET r == CommitTries(c, 1, [n \in TrieNames |-> Nil], << >>, flt)
    IN IF r.err # ErrNone
       THEN [c |-> r.c, err |-> r.err, ret |-> NilProto, log |-> r.log]
       ELSE [c |-> r.c, err |-> ErrNone,
             ret |-> [EpochHash     |-> r.roots.epochTrie,
                      DelegateHash  |-> r.roots.delegateTrie,
                      VoteHash      |-> r.roots.voteTrie,
                      CandidateHash |-> r.roots.candidateTrie,
                      MintCntHash   |-> r.roots.mintCntTrie],
             log |-> r.log \o [j \in 1..Len(FlushOrder) |-> << "flush", FlushOrder[j] >>]]

(* ------------------------------ mint count ---------------------------- *)
epochInterval == 86400

\* mutant: every block counts as the validator's first of the epoch
updateMintCntFirst(c, parentBlockTime, currentBlockTime, validator) ==
    [c EXCEPT !.mintCntTrie =
        TryUpdate(@, PutUint64(Quo(currentBlockTime, epochInterval)) \o Bytes(validator),
                  PutUint64(1))]

updateMintCnt(c, parentBlockTime, currentBlockTime, validator) ==
    LET currentMintCntTrie == c.mintCntTrie
        currentEpoch == Quo(parentBlockTime, epochInterval)
        currentEpochBytes == PutUint64(currentEpoch)
        newEpoch == Quo(currentBlockTime, epochInterval)
        cntBytes == TryGet(currentMintCntTrie, currentEpochBytes \o Bytes(validator))
        cnt == IF /\ currentEpoch = newEpoch
                  /\ NodeIteratorNext(currentMintCntTrie, currentEpochBytes)
                  /\ cntBytes # Nil
               THEN Uint64(cntBytes) + 1
               ELSE 1
    IN [c EXCEPT !.mintCntTrie =
            TryUpdate(@, PutUint64(newEpoch) \o Bytes(validator), PutUint64(cnt))]

(* ------------------- the context, its snapshot, the heap -------------- *)
VARIABLES
    d,          \* the DposContext: for each trie field, the trie object it points to
    s,          \* the snapshot the caller holds (0: none taken)
    heap,       \* the trie objects: heap[slot][field] is the contents of one trie
    sTaken,     \* history: the contents of the five tries when s was taken
    reverted,   \* history: RevertToSnapShot(s) was called since s was taken
    last,       \* the last call on the context and what it returned (for a revert,
                \* a is the number of tries whose contents it changed and log the
                \* call before it; for a kick-out, b is the number of delegate rows
                \* the candidate had)
    faulty      \* whether the backing store has lost nodes

ctxVars == << d, s, heap, sTaken, reverted, last, faulty >>

VARIABLES
    chain,                  \* the hashes of the headers the chain reader finds
    head,                   \* chain.CurrentHeader()
    maxValidatorSize,       \* MaxValidatorSize of the genesis header
    confirmedBlockHeader,   \* Dpos.confirmedBlockHeader
    dbConfirmed,            \* the value under confirmed-block-head in the db
    seal                    \* the last verifySeal call: its error, the error of the
                            \* confirmation tracker, and whether the tracker ran

dposVars == << chain, head, maxValidatorSize, confirmedBlockHeader, dbConfirmed, seal >>

VARIABLES
    probe,      \* a call of a function of the engine: its arguments and its result
    minted      \* history: the time of the last finalized block, the (time,
                \* validator) of each finalized block, and whether the times of
                \* the blocks never decreased

VARIABLES
    engineSigner,   \* d.signer, word by word
    engineSignFn,   \* d.signFn: the Authorize call that installed it (0: nil)
    mu,         \* d.mu: the Authorize call that holds it (0: free)
    auth,       \* the position of each Authorize call
    sealCall,   \* the Seal call: its position, its input block, its copy of the
                \* header, the wall clock, the slot it waits for, what it has read
                \* of the engine, how often it called signFn, what it returned
    stop,       \* the stop channel of the Seal call: "open", or where Seal was when
                \* the channel was closed
    batch       \* the VerifyHeaders call: its headers, its worker, its channels

procVars == << engineSigner, engineSignFn, mu, auth, sealCall, stop, batch >>

callVars == << probe, minted, procVars >>

vars == << ctxVars, dposVars, callVars >>

\* the contents read through a context's five pointers
Deref(h, p) == [n \in TrieNames |-> h[p[n]][n]]

\* a write through the pointers p reaches every context that shares the object
Store(h, p, c) ==
    [b \in Slots |-> [n \in TrieNames |-> IF p[n] = b THEN c[n] ELSE h[b][n]]]

\* objects no context points to are dropped
Collect(h, dd, ss) ==
    [b \in Slots |-> [n \in TrieNames |->
        IF dd[n] = b \/ ss[n] = b THEN h[b][n] ELSE EmptyTrie]]

\* Copy: five new trie structs, each a copy of the struct it is taken from
Copy(c) ==
    [epochTrie     |-> c.epochTrie,
     delegateTrie  |-> c.delegateTrie,
     voteTrie      |-> c.voteTrie,
     candidateTrie |-> c.candidateTrie,
     mintCntTrie   |-> c.mintCntTrie]

\* mutant: the revert leaves the vote trie of the context in place
RevertKeepsVote(dd, snapshot) ==
    [epochTrie     |-> snapshot.epochTrie,
     delegateTrie  |-> snapshot.delegateTrie,
     candidateTrie |-> snapshot.candidateTrie,
     voteTrie      |-> dd.voteTrie,
     mintCntTrie   |-> snapshot.mintCntTrie]

\* RevertToSnapShot: the context takes the snapshot's five trie pointers
RevertToSnapShot(dd, snapshot) ==
    [epochTrie     |-> snapshot.epochTrie,
     delegateTrie  |-> snapshot.delegateTrie,
     candidateTrie |-> snapshot.candidateTrie,
     voteTrie      |-> snapshot.voteTrie,
     mintCntTrie   |-> snapshot.mintCntTrie]

Ctx == Deref(heap, d)

HasSnapshot == \A n \in TrieNames : s[n] # 0

Call(op, a, b, err, ret, log) ==
    [op |-> op, a |-> a, b |-> b, err |-> err, ret |-> ret, log |-> log]

MaxCalls == 1 + 3 * NumAddr

Faults ==
    IF faulty
    THEN {NoFault} \cup {[at |-> k, kind |-> e] :
                            k \in 1..MaxCalls, e \in {MissingNodeError, ErrStorage}}
    ELSE {NoFault}

InitCtx ==
    /\ d = [n \in TrieNames |-> 1]
    /\ s = [n \in TrieNames |-> 0]
    /\ heap = [b \in Slots |-> NewDposContext]
    /\ sTaken = NewDposContext
    /\ reverted = FALSE
    /\ last = Call("NewDposContext", 0, 0, ErrNone, NilProto, << >>)
    /\ faulty = FALSE

Mutate(op, a, b, r) ==
    /\ heap' = Store(heap, d, r.c)
    /\ last' = Call(op, a, b, r.err, NilProto, << >>)
    /\ UNCHANGED << d, s, sTaken, reverted, faulty, dposVars, callVars >>

DoBecomeCandidate(A) ==
    \E a \in A, flt \in Faults :
        Mutate("BecomeCandidate", a, 0, BecomeCandidate(Ctx, a, flt))

DoKickoutCandidate(A) ==
    \E a \in A, flt \in Faults :
        Mutate("KickoutCandidate", a, Len(PrefixIterator(Ctx.delegateTrie, Bytes(a))),
               KickoutCandidate(Ctx, a, flt))

DoDelegate(A) ==
    \E v \in A, a \in A, flt \in Faults :
        Mutate("Delegate", v, a, Delegate(Ctx, v, a, flt))

DoUnDelegate(A) ==
    \E v \in A, a \in A, flt \in Faults :
        Mutate("UnDelegate", v, a, UnDelegate(Ctx, v, a, flt))

DoSetValidators ==
    \E vs \in ValidatorLists, flt \in Faults :
        Mutate("SetValidators", vs[1], Len(vs), SetValidators(Ctx, vs, flt))

\* a block of validator v is finalized in the first epoch
DoUpdateMintCnt ==
    \E v \in MintValidators :
        /\ TryGet(Ctx.mintCntTrie, PutUint64(0) \o Bytes(v)) # PutUint64(MaxMintCnt)
        /\ Mutate("updateMintCnt", v, 0, Result(updateMintCnt(Ctx, 0, 0, v), ErrNone))

DoCommit ==
    \E flt \in Faults :
        LET r == Commit(Ctx, flt)
        IN /\ heap' = Store(heap, d, r.c)
           /\ last' = Call("Commit", 0, 0, r.err, r.ret, r.log)
           /\ UNCHANGED << d, s, sTaken, reverted, faulty, dposVars, callVars >>

\* the caller takes a snapshot and keeps it in place of the one it held
DoSnapshot ==
    LET b == CHOOSE x \in Slots :
                 /\ \A n \in TrieNames : d[n] # x
                 /\ \A y \in Slots : (\A n \in TrieNames : d[n] # y) => x <= y
        snap == [n \in TrieNames |-> b]
    IN /\ s' = snap
       /\ heap' = Collect([heap EXCEPT ![b] = Copy(Ctx)], d, snap)
       /\ sTaken' = Ctx
       /\ reverted' = FALSE
       /\ last' = Call("Snapshot", 0, 0, ErrNone, NilProto, << >>)
       /\ UNCHANGED << d, faulty, dposVars, callVars >>

DoRevertToSnapShot ==
    /\ HasSnapshot
    /\ d' = RevertToSnapShot(d, s)
    /\ heap' = Collect(heap, d', s)
    /\ reverted' = TRUE
    /\ last' = Call("RevertToSnapShot",
                     Cardinality({n \in TrieNames : heap'[d'[n]][n] # heap[d[n]][n]}),
                     0, ErrNone, NilProto, << << last.op, last.err >> >>)
    /\ UNCHANGED << s, sTaken, faulty, dposVars, callVars >>

\* the backing store loses nodes: from here on a trie call may fail
DoLoseNodes ==
    /\ ~faulty
    /\ faulty' = TRUE
    /\ UNCHANGED << d, s, heap, sTaken, reverted, last, dposVars, callVars >>

(* ================================ Dpos ================================ *)
\* the validators that sign blocks
Validators == {1, 2, 3}

\* the time between a block and its parent: one slot, or one epoch
TimeDeltas == {10, epochInterval}

ErrUnknownBlock == "unknown block"
ErrMismatchSignerAndValidator == "mismatch block signer and validator"
ErrInvalidBlockValidator == "invalid block validator"
ErrNilBlockHeader == "nil block header returned"
ErrPut == "db put failed"
NilPointerPanic == "panic: nil pointer dereference"

(***************************************************************************)
(* A header is named by its hash, and the hash of a header commits to its  *)
(* fields and, through ParentHash, to its ancestors: a hash is the         *)
(* sequence of (validator, time since the parent) from the genesis block's *)
(* child down to the header.                                               *)
(***************************************************************************)
Genesis == << >>

\* a nil *types.Header
NilHeader == << << 0, 0 >> >>

Number(h) == Len(h)

ParentHash(h) == SubSeq(h, 1, Len(h) - 1)

Validator(h) == IF h = Genesis THEN 0 ELSE h[Len(h)][1]

RECURSIVE Time(_)
Time(h) == IF h = Genesis THEN 0 ELSE Time(ParentHash(h)) + h[Len(h)][2]

GetHeaderByHash(ch, hash) == IF hash \in ch THEN hash ELSE NilHeader

\* the headers some header of the chain descends from and the reader does not find
Missing(ch) ==
    UNION {{SubSeq(h, 1, n) : n \in 0..Len(h)} : h \in ch} \ ch

\* loadConfirmedBlockHeader: the header, or NilHeader with an error
loadConfirmedBlockHeader(ch, db) ==
    IF db = NilHeader THEN NilHeader ELSE GetHeaderByHash(ch, db)

\* a tracker that starts every walk from the genesis header
LoadedGenesis(ch, confirmed, db) == Genesis

\* the confirmed header the walk starts from
LoadedConfirmed(ch, confirmed, db) ==
    IF confirmed = NilHeader
    THEN IF loadConfirmedBlockHeader(ch, db) = NilHeader
         THEN Genesis
         ELSE loadConfirmedBlockHeader(ch, db)
    ELSE confirmed

\* a supermajority one validator short
consensusSizeShort(mvs) == (mvs * 2) \div 3

consensusSize(mvs) == (mvs * 2) \div 3 + 1

\* mutant: the fast return also taken when the headroom is just enough
FastReturnEager(cur, confirmed, mvs, validatorMap) ==
    Number(cur) - Number(confirmed) <= consensusSize(mvs) - Cardinality(validatorMap)

\* the fast return of the walk
FastReturn(cur, confirmed, mvs, validatorMap) ==
    Number(cur) - Number(confirmed) < consensusSize(mvs) - Cardinality(validatorMap)

\* the condition of the walk's loop
LoopCond(cur, confirmed) == confirmed # cur /\ Number(confirmed) < Number(cur)

Tracked(confirmed, db, err) == [confirmed |-> confirmed, db |-> db, err |-> err]

\* the walk without its fast return
RECURSIVE WalkToTheEnd(_, _, _, _, _, _, _, _)
WalkToTheEnd(ch, mvs, confirmed, db, cur, epoch, validatorMap, putFails) ==
    IF ~LoopCond(cur, confirmed) THEN Tracked(confirmed, db, ErrNone)
    ELSE
      LET curEpoch == Quo(Time(cur), epochInterval)
          vm0 == IF curEpoch # epoch THEN {} ELSE validatorMap
          vm1 == vm0 \cup {Validator(cur)}
      IN IF Cardinality(vm1) >= consensusSize(mvs)
         THEN IF putFails THEN Tracked(cur, db, ErrPut)
              ELSE Tracked(cur, cur, ErrNone)
         ELSE
           LET parent == GetHeaderByHash(ch, ParentHash(cur))
           IN IF parent = NilHeader THEN Tracked(confirmed, db, ErrNilBlockHeader)
              ELSE WalkToTheEnd(ch, mvs, confirmed, db, parent, curEpoch, vm1, putFails)

\* mutant: a walk that keeps its witnesses across epochs
RECURSIVE WalkAcrossEpochs(_, _, _, _, _, _, _, _)
WalkAcrossEpochs(ch, mvs, confirmed, db, cur, epoch, validatorMap, putFails) ==
    IF ~LoopCond(cur, confirmed) THEN Tracked(confirmed, db, ErrNone)
    ELSE IF FastReturn(cur, confirmed, mvs, validatorMap) THEN Tracked(confirmed, db, ErrNone)
    ELSE
      LET vm1 == validatorMap \cup {Validator(cur)}
      IN IF Cardinality(vm1) >= consensusSize(mvs)
         THEN IF putFails THEN Tracked(cur, db, ErrPut)
              ELSE Tracked(cur, cur, ErrNone)
         ELSE
           LET parent == GetHeaderByHash(ch, ParentHash(cur))
           IN IF parent = NilHeader THEN Tracked(confirmed, db, ErrNilBlockHeader)
              ELSE WalkAcrossEpochs(ch, mvs, confirmed, db, parent, epoch, vm1, putFails)

RECURSIVE Walk(_, _, _, _, _, _, _, _)
Walk(ch, mvs, confirmed, db, cur, epoch, validatorMap, putFails) ==
    IF ~LoopCond(cur, confirmed) THEN Tracked(confirmed, db, ErrNone)
    ELSE
      LET curEpoch == Quo(Time(cur), epochInterval)
          vm0 == IF curEpoch # epoch THEN {} ELSE validatorMap
      IN IF FastReturn(cur, confirmed, mvs, vm0) THEN Tracked(confirmed, db, ErrNone)
         ELSE
           LET vm1 == vm0 \cup {Validator(cur)}
           IN IF Cardinality(vm1) >= consensusSize(mvs)
              THEN IF putFails THEN Tracked(cur, db, ErrPut)
                   ELSE Tracked(cur, cur, ErrNone)
              ELSE
                LET parent == GetHeaderByHash(ch, ParentHash(cur))
                IN IF parent = NilHeader THEN Tracked(confirmed, db, ErrNilBlockHeader)
                   ELSE Walk(ch, mvs, confirmed, db, parent, curEpoch, vm1, putFails)

updateConfirmedBlockHeader(ch, hd, mvs, confirmed, db, putFails) ==
    Walk(ch, mvs, LoadedConfirmed(ch, confirmed, db), db, hd, -1, {}, putFails)

\* the hash a validator signs: the header's fields without the signature
sigHash(header) ==
    Keccak256(<< ParentHash(header), Validator(header), Number(header), Time(header) >>)

\* the signature of signer over header, as Seal puts it at the end of header.Extra
Signature(header, signer) == [by |-> signer, over |-> sigHash(header)]

\* header.Validator is overwritten
WithValidator(header, validator) ==
    IF header = Genesis THEN header
    ELSE Append(ParentHash(header), << validator, header[Len(header)][2] >>)

\* the address that a signature yields for a hash it was not made over: nobody's
StrangerAddr == 0

\* ecrecover: the address whose key made signature, if it was made over the
\* header's sigHash
ecrecover(header, signature) ==
    IF signature.over = sigHash(header) THEN signature.by ELSE StrangerAddr

verifyBlockSigner(signer, validator, header) ==
    IF signer # validator THEN ErrInvalidBlockValidator
    ELSE IF signer # Validator(header) THEN ErrMismatchSignerAndValidator
    ELSE ErrNone

Sealed(err, tracker, ran) == [err |-> err, tracker |-> tracker, ran |-> ran]

\* verifySeal of currentheader, whose signature recovers to signer, at a time whose
\* turn is validator's; the error of the tracker is the error of verifySeal
verifySeal(ch, hd, mvs, confirmed, db, currentheader, signer, validator, putFails) ==
    IF Number(currentheader) = 0
    THEN [t |-> Tracked(confirmed, db, ErrNone), s |-> Sealed(ErrUnknownBlock, ErrNone, FALSE)]
    ELSE IF GetHeaderByHash(ch, ParentHash(currentheader)) = NilHeader
    THEN [t |-> Tracked(confirmed, db, ErrNone), s |-> Sealed(NilPointerPanic, ErrNone, FALSE)]
    ELSE IF verifyBlockSigner(signer, validator, currentheader) # ErrNone
    THEN [t |-> Tracked(confirmed, db, ErrNone),
          s |-> Sealed(verifyBlockSigner(signer, validator, currentheader), ErrNone, FALSE)]
    ELSE LET u == updateConfirmedBlockHeader(ch, hd, mvs, confirmed, db, putFails)
         IN [t |-> u, s |-> Sealed(u.err, u.err, TRUE)]

\* the result of a call, whether the header was valid when it was signed (it follows
\* a header of the chain and its validator signed it in its turn), and whether its
\* validator field was overwritten afterwards
Shipped(r, valid, spoofed) ==
    [err |-> r.err, tracker |-> r.tracker, ran |-> r.ran,
     valid |-> valid, spoofed |-> spoofed]

NoSeal == Shipped(Sealed(ErrNone, ErrNone, FALSE), FALSE, FALSE)

InitDpos ==
    /\ chain = {Genesis}
    /\ head = Genesis
    /\ maxValidatorSize \in 1..Cardinality(Validators)
    /\ confirmedBlockHeader = NilHeader
    /\ dbConfirmed = NilHeader
    /\ seal = NoSeal

\* a block is inserted; validators are numbered in the order they first sign
DoAddBlock(Deltas) ==
    \E parent \in chain, v \in Validators, dt \in Deltas :
        LET h == Append(parent, << v, dt >>)
        IN /\ Cardinality(chain) <= MaxBlocks
           /\ Len(h) <= MaxBlocks
           /\ h \notin chain
           /\ \A w \in Validators : w < v => \E x \in chain : Validator(x) = w
           /\ chain' = chain \cup {h}
           /\ UNCHANGED << head, maxValidatorSize, confirmedBlockHeader, dbConfirmed, seal, ctxVars, callVars >>

\* the chain is reorganised to another header
DoSetHead ==
    \E h \in chain \ {head} :
        /\ head' = h
        /\ UNCHANGED << chain, maxValidatorSize, confirmedBlockHeader, dbConfirmed, seal, ctxVars, callVars >>

\* the reader no longer finds an ancestor of a header it has
DoDropHeader ==
    \E h \in chain \ {Genesis, head} :
        /\ \E x \in chain : x # h /\ HasPrefix(x, h)
        /\ Cardinality(Missing(chain)) < MaxMissing
        /\ chain' = chain \ {h}
        /\ UNCHANGED << head, maxValidatorSize, confirmedBlockHeader, dbConfirmed, seal, ctxVars, callVars >>

\* the headers of the chain that follow a header of the chain
Verifiable == {h \in chain : h # Genesis /\ ParentHash(h) \in chain}

\* VerifySeal of a header: one of Headers, signed by its validator or by one of
\* Signers, then shipped with its validator field or with one of Signers in it, at
\* a time whose turn is the validator's or one of Signers'
DoVerifySeal(Headers, Signers) ==
    \E header \in Headers, putFails \in BOOLEAN :
      \E by \in Signers \cup {Validator(header)},
         shippedValidator \in Signers \cup {Validator(header)},
         validator \in Signers \cup {Validator(header)} :
        LET currentheader == WithValidator(header, shippedValidator)
            signer == ecrecover(currentheader, Signature(header, by))
            r == verifySeal(chain, head, maxValidatorSize, confirmedBlockHeader,
                            dbConfirmed, currentheader, signer, validator, putFails)
        IN /\ confirmedBlockHeader' = r.t.confirmed
           /\ dbConfirmed' = r.t.db
           /\ seal' = Shipped(r.s,
                              /\ header \in Verifiable
                              /\ by = Validator(header)
                              /\ validator = Validator(header),
                              shippedValidator # Validator(header))
           /\ UNCHANGED << chain, head, maxValidatorSize, ctxVars, callVars >>

\* the engine is idle while the context is exercised
DposIdle ==
    /\ chain = {Genesis}
    /\ head = Genesis
    /\ maxValidatorSize = Cardinality(Validators)
    /\ confirmedBlockHeader = NilHeader
    /\ dbConfirmed = NilHeader
    /\ seal = NoSeal

\* no function was called, no block was finalized
NotRun == "not run"

NoProbe == [fn |-> "none", in |-> << >>, out |-> NotRun, done |-> FALSE]

\* the call probe has made returns out
Returned(out) == [probe EXCEPT !.out = out, !.done = TRUE]

NoMint == [time |-> 0, blocks |-> << >>, sorted |-> TRUE]

\* a nil pointer is the empty sequence, a pointer to x is << x >>
NilPtr == << >>

\* a field of the engine that Seal has not read yet
NotRead == 0 - 1

\* no signature in the last extraSeal bytes of header.Extra
NoSig == [by |-> << 0, 0 >>, fn |-> 0]

NoReturn == [block |-> NilPtr, err |-> NotRun]

NoSealCall ==
    [pc |-> "idle",
     block |-> [number |-> 0, seal |-> NoSig],
     header |-> [number |-> 0, seal |-> NoSig],
     now |-> 0,
     slot |-> 0,
     fn |-> NotRead,
     addr |-> << NotRead, NotRead >>,
     calls |-> 0,
     ret |-> NoReturn]

NoBatch ==
    [pc |-> "idle", headers |-> << >>, first |-> NilPtr, i |-> 0, err |-> ErrNone,
     results |-> << >>, abort |-> FALSE, sent |-> << >>]

ProcIdle ==
    /\ engineSigner = << 0, 0 >>
    /\ engineSignFn = 0
    /\ mu = 0
    /\ auth = [k \in 1..MaxAuth |-> "idle"]
    /\ sealCall = NoSealCall
    /\ stop = "open"
    /\ batch = NoBatch

CallIdle == probe = NoProbe /\ minted = NoMint /\ ProcIdle

Init == InitCtx /\ DposIdle /\ CallIdle

\* the context over an intact store
Next ==
    \/ DoBecomeCandidate(Addrs)
    \/ DoKickoutCandidate(Addrs)
    \/ DoDelegate(Addrs)
    \/ DoUnDelegate(Addrs)
    \/ DoSetValidators
    \/ DoUpdateMintCnt
    \/ DoCommit

Spec == Init /\ [][Next]_vars

\* the context and one snapshot of it
NextSnapshot ==
    \/ DoBecomeCandidate(SnapAddrs)
    \/ DoKickoutCandidate(SnapAddrs)
    \/ DoDelegate(SnapAddrs)
    \/ DoUnDelegate(SnapAddrs)
    \/ DoSetValidators
    \/ DoUpdateMintCnt
    \/ DoSnapshot
    \/ DoRevertToSnapShot

SpecSnapshot == Init /\ [][NextSnapshot]_vars

\* the context over a store that may lose nodes
NextFault ==
    \/ DoBecomeCandidate(Addrs)
    \/ DoKickoutCandidate(Addrs)
    \/ DoDelegate(Addrs)
    \/ DoUnDelegate(Addrs)
    \/ DoLoseNodes

SpecFault == Init /\ [][NextFault]_vars

\* the context and one snapshot of it, over a store that may lose nodes
NextAtomic ==
    \/ DoBecomeCandidate(SnapAddrs)
    \/ DoKickoutCandidate(SnapAddrs)
    \/ DoDelegate(SnapAddrs)
    \/ DoSnapshot
    \/ DoRevertToSnapShot
    \/ DoLoseNodes

SpecAtomic == Init /\ [][NextAtomic]_vars

\* the engine verifying seals over a growing block tree
NextDpos ==
    \/ DoAddBlock(TimeDeltas)
    \/ DoSetHead
    \/ DoDropHeader
    \/ DoVerifySeal(Verifiable, {})

InitConfirm == InitCtx /\ InitDpos /\ CallIdle

SpecConfirm == InitConfirm /\ [][NextDpos]_vars

\* the engine verifying the seals of headers that anyone may have signed or altered
NextSeal ==
    \/ DoAddBlock({10})
    \/ DoDropHeader
    \/ DoVerifySeal(chain, Validators)

SpecSeal == Init /\ [][NextSeal]_vars

(* ============================ verifyHeader ============================ *)
extraVanity == 32

extraSeal == 65

ErrFutureBlock == "block in the future"
ErrMissingVanity == "extra-data 32 byte vanity prefix missing"
ErrMissingSignature == "extra-data 65 byte suffix signature missing"
ErrInvalidMixDigest == "non-zero mix digest"
ErrInvalidUncleHash == "non empty uncle hash"
ErrInvalidDifficulty == "invalid difficulty"
ErrUnknownAncestor == "unknown ancestor"
ErrInvalidTimestamp == "invalid timestamp"
ErrFork == "fork hash mismatch"

\* a *big.Int that is not negative: the words of its absolute value, lowest first
Big0 == << >>

Big1 == << 1 >>

\* big.Int.Uint64: the lowest word of the absolute value
BigUint64(x) == IF x = Big0 THEN 0 ELSE x[1]

\* types.CalcUncleHash(nil): the hash of the rlp of the empty list
uncleHash == Keccak256(<< 192 >>)

\* verifyHeader without parents: parent is what chain.GetHeader returns for
\* header.ParentHash, forkErr what misc.VerifyForkHashes returns, now the wall clock
verifyHeader(header, parent, forkErr, now, blockInterval) ==
    IF header.Number = NilPtr THEN ErrUnknownBlock
    ELSE IF header.Time > now THEN ErrFutureBlock
    ELSE IF header.Extra < extraVanity THEN ErrMissingVanity
    ELSE IF header.Extra < extraVanity + extraSeal THEN ErrMissingSignature
    ELSE IF header.MixDigest # 0 THEN ErrInvalidMixDigest
    ELSE IF BigUint64(header.Difficulty) # 1 THEN ErrInvalidDifficulty
    ELSE IF header.UncleHash # uncleHash THEN ErrInvalidUncleHash
    ELSE IF forkErr # ErrNone THEN forkErr
    ELSE IF \/ parent = NilPtr
            \* number-1 of number 0 is 2^64-1, the number of no header
            \/ header.Number[1] = 0
            \/ parent[1].Number # header.Number[1] - 1
            \/ parent[1].Hash # header.ParentHash
    THEN ErrUnknownAncestor
    ELSE IF parent[1].Time + blockInterval > header.Time THEN ErrInvalidTimestamp
    ELSE ErrNone

\* the headers given to verifyHeader: the fields it reads, Extra by its length
HeaderInputs ==
    [Number : {NilPtr, << 1 >>, << 2 >>},
     Time : {10, 20},
     Extra : {extraVanity - 1, extraVanity + extraSeal - 1, extraVanity + extraSeal},
     MixDigest : {0, 1},
     Difficulty : {Big0, Big1, << 2 >>, << 1, 1 >>},
     UncleHash : {uncleHash, Keccak256(<< 193, 128 >>)},
     ParentHash : {1}]

\* what chain.GetHeader returns: nil, or a header with its hash
ParentInputs ==
    {NilPtr} \cup {<< x >> : x \in [Number : {0, 1}, Hash : {1, 2}, Time : {0, 5}]}

VerifyInputs ==
    [header : HeaderInputs, parent : ParentInputs, forkErr : {ErrNone, ErrFork},
     now : {15}, blockInterval : {10}]

InitVerify ==
    /\ InitCtx
    /\ DposIdle
    /\ minted = NoMint
    /\ ProcIdle
    /\ probe \in [fn : {"verifyHeader"}, in : VerifyInputs, out : {NotRun}, done : {FALSE}]

DoVerifyHeader ==
    /\ probe.fn = "verifyHeader"
    /\ ~probe.done
    /\ probe' = Returned(verifyHeader(probe.in.header, probe.in.parent, probe.in.forkErr,
                                      probe.in.now, probe.in.blockInterval))
    /\ UNCHANGED << ctxVars, dposVars, minted, procVars >>

NextVerify == DoVerifyHeader

SpecVerify == InitVerify /\ [][NextVerify]_vars

(* ============================== the slots ============================= *)
PrevSlot(now, blockInterval) == Quo(now - 1, blockInterval) * blockInterval

NextSlot(now, blockInterval) == Quo(now + blockInterval - 1, blockInterval) * blockInterval

\* the times and the block intervals the slot functions are given
SlotInputs == [now : -MaxTime..MaxTime, blockInterval : 1..MaxInterval]

InitSlot ==
    /\ InitCtx
    /\ DposIdle
    /\ minted = NoMint
    /\ ProcIdle
    /\ probe \in [fn : {"slots"}, in : SlotInputs, out : {NotRun}, done : {FALSE}]

\* PrevSlot(now), NextSlot(now) and NextSlot(PrevSlot(now)+1)
DoSlots ==
    /\ probe.fn = "slots"
    /\ ~probe.done
    /\ probe' = Returned(
                    [prev |-> PrevSlot(probe.in.now, probe.in.blockInterval),
                     next |-> NextSlot(probe.in.now, probe.in.blockInterval),
                     nextOfPrev |-> NextSlot(PrevSlot(probe.in.now, probe.in.blockInterval) + 1,
                                             probe.in.blockInterval)])
    /\ UNCHANGED << ctxVars, dposVars, minted, procVars >>

NextSlots == DoSlots

SpecSlot == InitSlot /\ [][NextSlots]_vars

(* ======================= properties of the context ==================== *)
\* the (candidate, voter) pairs of the delegate trie's keys
DelegatePairs(c) == {<< k[1], k[2] >> : k \in DOMAIN c.delegateTrie}

\* the (vote[V], V) pairs of the vote trie
VotePairs(c) == {<< c.voteTrie[k][1], k[1] >> : k \in DOMAIN c.voteTrie}

NonEmpty(c) == \A n \in TrieNames : DOMAIN c[n] # {}

\* C1: after any sequence of BecomeCandidate, KickoutCandidate, Delegate and
\* UnDelegate calls, successful or failing, from an empty context, the pairs (C, V)
\* with a row delegate[C ++ V] are exactly the pairs (vote[V], V).
VoteDelegateConsistent == DelegatePairs(Ctx) = VotePairs(Ctx)

\* two voters back two different candidates and the last call failed
VoteDelegateWitness ==
    /\ last.err \in {ErrInvalidCandidateToDelegate, ErrInvalidCandidateToUnDelegate,
                     ErrMismatchCandidateToUnDelegate}
    /\ Cardinality(VotePairs(Ctx)) = 2
    /\ Cardinality({p[1] : p \in VotePairs(Ctx)}) = 2

\* C2: every candidate that is the prefix of a delegate key or the value of a vote
\* is a member of the candidate trie.
VotedAreCandidates ==
    \A p \in DelegatePairs(Ctx) \cup VotePairs(Ctx) :
        Bytes(p[1]) \in DOMAIN Ctx.candidateTrie

\* a candidate with a voter was kicked out while another candidate keeps a vote
VotedAreCandidatesWitness ==
    /\ last.op = "KickoutCandidate"
    /\ last.err = ErrNone
    /\ Cardinality(DOMAIN Ctx.candidateTrie) = 1
    /\ VotePairs(Ctx) # {}

\* C3: s = Snapshot(), any mutations of the context, RevertToSnapShot(s): the five
\* tries hold what they held when s was taken and Root() is the root of that time.
SnapshotRoundTrip ==
    [][(~reverted /\ last'.op = "RevertToSnapShot")
         => /\ Deref(heap', d') = sTaken
            /\ Root(Deref(heap', d')) = Root(sTaken)]_vars

\* a revert has just put back all five tries, each changed since the snapshot
SnapshotRoundTripWitness ==
    /\ last.op = "RevertToSnapShot"
    /\ last.a = Cardinality(TrieNames)
    /\ Ctx = sTaken

\* C4: once s = Snapshot() is taken, no later operation on the context changes what
\* is read through s, also after RevertToSnapShot(s) and further mutations.
SnapshotIndependent == HasSnapshot => Deref(heap, s) = sTaken

\* C5: the digest is the one function of the five roots in the order epoch,
\* delegate, candidate, vote, mintCnt: Root() of a context, the Root() of its
\* ToProto() and the Root() of the proto a Commit returned are the same digest.
RootDeterminism ==
    /\ Root(Ctx) = ProtoRoot(ToProto(Ctx))
    /\ (last.op = "Commit" /\ last.err = ErrNone) => ProtoRoot(last.ret) = Root(Ctx)

\* a committed context whose five tries all differ
RootDeterminismWitness ==
    /\ last.op = "Commit"
    /\ last.err = ErrNone
    /\ NonEmpty(Ctx)
    /\ TrieHash(Ctx.candidateTrie) # TrieHash(Ctx.voteTrie)

\* C6 as claimed: the trie commits and the flushes of the roots both occur in the
\* order epoch, delegate, vote, candidate, mintCnt, every commit before every flush.
CommitOrderClaimed ==
    (last.op = "Commit" /\ last.err = ErrNone) =>
        last.log = << << "commit", "epochTrie" >>, << "commit", "delegateTrie" >>,
                      << "commit", "voteTrie" >>, << "commit", "candidateTrie" >>,
                      << "commit", "mintCntTrie" >>,
                      << "flush", "epochTrie" >>, << "flush", "delegateTrie" >>,
                      << "flush", "voteTrie" >>, << "flush", "candidateTrie" >>,
                      << "flush", "mintCntTrie" >> >>

\* C6 amended: the tries are committed in the order epoch, delegate, vote, candidate,
\* mintCnt; the roots are flushed in the order epoch, delegate, candidate, vote,
\* mintCnt; every trie commit precedes every flush.
CommitOrderActual ==
    (last.op = "Commit" /\ last.err = ErrNone) =>
        last.log = << << "commit", "epochTrie" >>, << "commit", "delegateTrie" >>,
                      << "commit", "voteTrie" >>, << "commit", "candidateTrie" >>,
                      << "commit", "mintCntTrie" >>,
                      << "flush", "epochTrie" >>, << "flush", "delegateTrie" >>,
                      << "flush", "candidateTrie" >>, << "flush", "voteTrie" >>,
                      << "flush", "mintCntTrie" >> >>

\* a Commit of five non-empty tries has returned
CommitOrderWitness ==
    /\ last.op = "Commit"
    /\ last.err = ErrNone
    /\ Len(last.log) = 2 * Cardinality(TrieNames)
    /\ NonEmpty(Ctx)

\* C7: a successful Commit leaves the contents of the five tries as they were, the
\* write-back of each root key included, and returns the five hashes the tries had
\* before the call.
CommitKeepsContents ==
    [][(last'.op = "Commit" /\ last'.err = ErrNone)
         => /\ Deref(heap', d') = Ctx
            /\ last'.ret = [EpochHash     |-> TrieHash(Ctx.epochTrie),
                            DelegateHash  |-> TrieHash(Ctx.delegateTrie),
                            CandidateHash |-> TrieHash(Ctx.candidateTrie),
                            VoteHash      |-> TrieHash(Ctx.voteTrie),
                            MintCntHash   |-> TrieHash(Ctx.mintCntTrie)]]_vars

\* a Commit has returned the roots of five non-empty tries
CommitKeepsContentsWitness ==
    /\ last.op = "Commit"
    /\ last.err = ErrNone
    /\ NonEmpty(Ctx)
    /\ last.ret.VoteHash = TrieHash(Ctx.voteTrie)
    /\ last.ret.CandidateHash # last.ret.VoteHash

(* -------------------------- Authorize and Seal ------------------------ *)
ErrSign == "sign failed"

\* Authorize(signer, signFn) of call k: the steps between Lock and Unlock
AuthLock(k) ==
    /\ auth[k] = "idle"
    /\ mu = 0
    /\ mu' = k
    /\ auth' = [auth EXCEPT ![k] = "signer1"]
    /\ UNCHANGED << engineSigner, engineSignFn, sealCall, stop, batch, probe, minted, ctxVars, dposVars >>

\* d.signer = signer: an address is wider than a word
AuthSetSigner(k) ==
    \E w \in 1..2 :
        /\ auth[k] = (IF w = 1 THEN "signer1" ELSE "signer2")
        /\ engineSigner' = [engineSigner EXCEPT ![w] = k]
        /\ auth' = [auth EXCEPT ![k] = IF w = 1 THEN "signer2" ELSE "signFn"]
        /\ UNCHANGED << engineSignFn, mu, sealCall, stop, batch, probe, minted, ctxVars, dposVars >>

AuthSetSignFn(k) ==
    /\ auth[k] = "signFn"
    /\ engineSignFn' = k
    /\ auth' = [auth EXCEPT ![k] = "unlock"]
    /\ UNCHANGED << engineSigner, mu, sealCall, stop, batch, probe, minted, ctxVars, dposVars >>

AuthUnlock(k) ==
    /\ auth[k] = "unlock"
    /\ mu' = 0
    /\ auth' = [auth EXCEPT ![k] = "done"]
    /\ UNCHANGED << engineSigner, engineSignFn, sealCall, stop, batch, probe, minted, ctxVars, dposVars >>

DoAuthorize ==
    \E k \in 1..MaxAuth :
        AuthLock(k) \/ AuthSetSigner(k) \/ AuthSetSignFn(k) \/ AuthUnlock(k)

\* the block numbers, the wall clocks and the block intervals of the genesis header
\* that Seal is called with
SealInputs == [number : {0, 1}, now : {20, 25}, blockInterval : {5, 10}]

\* mutant: the wait of Seal only ends with the timer
SelectTimerOnly(stopClosed) == "wait"

\* select on stop and on the timer: the case that is ready, stop first since the
\* timer was only just set
SelectStopOrTimer(stopClosed) == IF stopClosed THEN "stopped" ELSE "wait"

SealFrame == UNCHANGED << engineSigner, engineSignFn, mu, auth, stop, batch, probe, minted, ctxVars, dposVars >>

\* Seal up to the wait for the slot
SealBegin ==
    \E in \in SealInputs :
        LET block == [number |-> in.number, seal |-> NoSig]
            delay == NextSlot(in.now, in.blockInterval) - in.now
            call == [sealCall EXCEPT !.block = block, !.header = block,
                                     !.now = in.now, !.slot = in.now + delay]
        IN /\ sealCall.pc = "idle"
           /\ sealCall' =
                IF in.number = 0
                THEN [call EXCEPT !.pc = "done",
                                  !.ret = [block |-> NilPtr, err |-> ErrUnknownBlock]]
                ELSE IF delay > 0
                THEN [call EXCEPT !.pc = SelectStopOrTimer(stop # "open")]
                ELSE [call EXCEPT !.pc = "sign"]
           /\ SealFrame

\* the caller closes the stop channel: a Seal that waits in its select wakes up
\* with the stop case
DoCloseStop ==
    /\ stop = "open"
    /\ stop' = sealCall.pc
    /\ sealCall' = IF sealCall.pc = "wait"
                   THEN [sealCall EXCEPT !.pc = SelectStopOrTimer(TRUE)]
                   ELSE sealCall
    /\ UNCHANGED << engineSigner, engineSignFn, mu, auth, batch, probe, minted, ctxVars, dposVars >>

\* the timer of the wait fires
DoTimer ==
    /\ sealCall.pc = "wait"
    /\ sealCall' = [sealCall EXCEPT !.pc = "sign", !.now = sealCall.slot]
    /\ SealFrame

\* case <-stop: return nil, nil
SealStopped ==
    /\ sealCall.pc = "stopped"
    /\ sealCall' = [sealCall EXCEPT !.pc = "done",
                                    !.ret = [block |-> NilPtr, err |-> ErrNone]]
    /\ SealFrame

\* Seal reads d.signFn
SealReadSignFn ==
    /\ sealCall.pc = "sign"
    /\ sealCall.fn = NotRead
    /\ sealCall' = [sealCall EXCEPT !.fn = engineSignFn]
    /\ SealFrame

\* Seal reads d.signer
SealReadSigner ==
    \E w \in 1..2 :
        /\ sealCall.pc = "sign"
        /\ sealCall.addr[w] = NotRead
        /\ w = 2 => sealCall.addr[1] # NotRead
        /\ sealCall' = [sealCall EXCEPT !.addr[w] = engineSigner[w]]
        /\ SealFrame

\* the call of signFn, the copy of the signature into header.Extra, the return
SealSign ==
    \E signs \in BOOLEAN :
        /\ sealCall.pc = "sign"
        /\ sealCall.fn # NotRead
        /\ \A w \in 1..2 : sealCall.addr[w] # NotRead
        /\ sealCall' =
             IF sealCall.fn = 0
             THEN [sealCall EXCEPT !.pc = "done",
                                   !.ret = [block |-> NilPtr, err |-> NilPointerPanic]]
             ELSE IF ~signs
             THEN [sealCall EXCEPT !.pc = "done", !.calls = @ + 1,
                                   !.ret = [block |-> NilPtr, err |-> ErrSign]]
             ELSE LET sighash == [by |-> sealCall.addr, fn |-> sealCall.fn]
                      header == [sealCall.header EXCEPT !.seal = sighash]
                  IN [sealCall EXCEPT !.pc = "done", !.calls = @ + 1,
                                      !.header = header,
                                      !.ret = [block |-> << header >>, err |-> ErrNone]]
        /\ SealFrame

DoSeal ==
    \/ SealBegin
    \/ SealStopped
    \/ SealReadSignFn
    \/ SealReadSigner
    \/ SealSign

\* one Seal call, its stop channel and its timer, and the Authorize calls
NextSealing ==
    \/ DoAuthorize
    \/ DoSeal
    \/ DoCloseStop
    \/ DoTimer

SpecSealing == Init /\ [][NextSealing]_vars

(* ---------------------------- VerifyHeaders --------------------------- *)
\* the headers of a batch: well-formed, with a number, a time and a parent hash
\* that fit the header before them or not
BatchHeaders ==
    {[Number |-> << n >>, Time |-> tm, Extra |-> extraVanity + extraSeal,
      MixDigest |-> 0, Difficulty |-> Big1, UncleHash |-> uncleHash,
      ParentHash |-> ph, Hash |-> n] : n \in {1, 2}, tm \in {10, 20}, ph \in {0, 1}}

BatchInputs == UNION {[1..n -> BatchHeaders] : n \in 0..MaxBatch}

\* what chain.GetHeader returns for the parent of the first header
BatchFirstParents == {NilPtr, << [Number |-> 0, Hash |-> 0, Time |-> 0] >>}

\* a pointer to header as verifyHeader reads its parent
ParentOf(header) ==
    << [Number |-> header.Number[1], Hash |-> header.Hash, Time |-> header.Time] >>

\* the parent of headers[i]: the last of headers[:i-1], or the chain's
BatchParent(headers, first, i) == IF i > 1 THEN ParentOf(headers[i - 1]) ELSE first

\* d.verifyHeader(chain, header, headers[:i], blockInterval) of the i-th header
BatchVerify(headers, first, i) ==
    verifyHeader(headers[i], BatchParent(headers, first, i), ErrNone, 25, 10)

\* mutant: a results channel without buffer
ResultsUnbuffered(headers) == 0

\* make(chan error, len(headers))
ResultsCap(headers) == Len(headers)

BatchFrame == UNCHANGED << engineSigner, engineSignFn, mu, auth, sealCall, stop, probe, minted, ctxVars, dposVars >>

\* VerifyHeaders: the channels are made, the worker is started
DoVerifyHeaders ==
    \E headers \in BatchInputs, first \in BatchFirstParents :
        /\ batch.pc = "idle"
        /\ batch' = [NoBatch EXCEPT !.pc = "loop", !.headers = headers, !.first = first]
        /\ BatchFrame

\* the worker verifies the next header
WorkerVerify ==
    /\ batch.pc = "loop"
    /\ batch.i < Len(batch.headers)
    /\ batch' = [batch EXCEPT !.pc = "select",
                              !.err = BatchVerify(batch.headers, batch.first, batch.i + 1)]
    /\ BatchFrame

\* the select of the worker: one of the cases that are ready
WorkerSelect ==
    /\ batch.pc = "select"
    /\ \/ /\ batch.abort
          /\ batch' = [batch EXCEPT !.pc = "exited"]
       \/ /\ Len(batch.results) < ResultsCap(batch.headers)
          /\ batch' = [batch EXCEPT !.pc = "loop", !.i = @ + 1,
                                    !.results = Append(@, batch.err),
                                    !.sent = Append(@, batch.err)]
    /\ BatchFrame

\* the loop of the worker is over
WorkerExit ==
    /\ batch.pc = "loop"
    /\ batch.i = Len(batch.headers)
    /\ batch' = [batch EXCEPT !.pc = "exited"]
    /\ BatchFrame

DoWorker == WorkerVerify \/ WorkerSelect \/ WorkerExit

\* the caller closes the abort channel
DoAbort ==
    /\ batch.pc # "idle"
    /\ ~batch.abort
    /\ batch' = [batch EXCEPT !.abort = TRUE]
    /\ BatchFrame

\* the caller receives a result
DoReceive ==
    /\ batch.results # << >>
    /\ batch' = [batch EXCEPT !.results = Tail(@)]
    /\ BatchFrame

NextBatch ==
    \/ DoVerifyHeaders
    \/ DoWorker
    \/ DoAbort
    \/ DoReceive

\* the worker is a goroutine: it runs whenever it can
SpecBatch == Init /\ [][NextBatch]_vars /\ WF_vars(DoWorker)

(* --------------------------- minting a chain -------------------------- *)
\* the time of the genesis block: the start of an epoch, or one slot before its end
GenesisTimes == {0, epochInterval - 10}

\* the time of a block less the time of its parent
MintDeltas == {0 - epochInterval, 0, 10, epochInterval}

InitMint ==
    /\ InitCtx
    /\ DposIdle
    /\ probe = NoProbe
    /\ ProcIdle
    /\ \E t \in GenesisTimes : minted = [NoMint EXCEPT !.time = t]

\* Finalize: the block of validator at time parent + dt is counted
DoMintBlock ==
    \E validator \in Addrs, dt \in MintDeltas :
        LET parentBlockTime == minted.time
            currentBlockTime == parentBlockTime + dt
        IN /\ Len(minted.blocks) < MaxMinted
           /\ currentBlockTime >= 0
           /\ heap' = Store(heap, d, updateMintCnt(Ctx, parentBlockTime,
                                                   currentBlockTime, validator))
           /\ last' = Call("updateMintCnt", validator, currentBlockTime,
                           ErrNone, NilProto, << >>)
           /\ minted' = [time |-> currentBlockTime,
                         blocks |-> Append(minted.blocks,
                                           << currentBlockTime, validator >>),
                         sorted |-> minted.sorted /\ dt >= 0]
           /\ UNCHANGED << d, s, sTaken, reverted, faulty, dposVars, probe, procVars >>

NextMint == DoMintBlock

SpecMint == InitMint /\ [][NextMint]_vars

(* ================= properties of the voting operations ================= *)
\* the five tries after the step
CtxAfter == Deref(heap', d')

IsCandidate(c, a) == Bytes(a) \in DOMAIN c.candidateTrie

\* trie t without the row of key
Without(t, key) == [k \in (DOMAIN t) \ {key} |-> t[k]]

SingleVote ==
    /\ (last.op = "Delegate" /\ last.err = ErrNone)
         => /\ TryGet(Ctx.voteTrie, Bytes(last.a)) = Bytes(last.b)
            /\ TryGet(Ctx.delegateTrie, Bytes(last.b) \o Bytes(last.a)) = Bytes(last.a)
            /\ \A p \in DelegatePairs(Ctx) : p[2] = last.a => p[1] = last.b
    /\ \A v \in Addrs : Cardinality({p \in DelegatePairs(Ctx) : p[2] = v}) <= 1

\* a voter has just moved its vote to a second candidate
SingleVoteWitness ==
    /\ last.op = "Delegate"
    /\ last.err = ErrNone
    /\ Cardinality(DOMAIN Ctx.candidateTrie) = 2
    /\ \A p \in DelegatePairs(Ctx) : p[1] = last.b
    /\ Cardinality(DelegatePairs(Ctx)) = 2

\* C17: UnDelegate(voter, candidate) fails and leaves the five tries as they were if
\* candidate is not in the candidate trie or vote[voter] is not candidate; otherwise
\* it removes delegate[candidate ++ voter] and vote[voter] and nothing else
UnDelegateExact ==
    [][last'.op = "UnDelegate"
         => IF \/ ~IsCandidate(Ctx, last'.b)
               \/ TryGet(Ctx.voteTrie, Bytes(last'.a)) # Bytes(last'.b)
            THEN last'.err # ErrNone /\ CtxAfter = Ctx
            ELSE /\ last'.err = ErrNone
                 /\ CtxAfter =
                      [Ctx EXCEPT
                         !.delegateTrie = Without(@, Bytes(last'.b) \o Bytes(last'.a)),
                         !.voteTrie = Without(@, Bytes(last'.a))]]_vars

\* a vote was withdrawn and another voter's vote is still there
UnDelegateExactWitness ==
    /\ last.op = "UnDelegate"
    /\ last.err = ErrNone
    /\ TryGet(Ctx.voteTrie, Bytes(last.a)) = Nil
    /\ VotePairs(Ctx) # {}

\* C18: after a successful KickoutCandidate(A), A is no candidate, no delegate row
\* has the prefix A and no vote points to A; the other candidates, delegate rows
\* and votes, and the other tries, are as they were
KickoutCascades ==
    [][(last'.op = "KickoutCandidate" /\ last'.err = ErrNone)
         => /\ ~IsCandidate(CtxAfter, last'.a)
            /\ \A p \in DelegatePairs(CtxAfter) \cup VotePairs(CtxAfter) : p[1] # last'.a
            /\ CtxAfter.candidateTrie = Without(Ctx.candidateTrie, Bytes(last'.a))
            /\ DelegatePairs(CtxAfter) = {p \in DelegatePairs(Ctx) : p[1] # last'.a}
            /\ VotePairs(CtxAfter) = {p \in VotePairs(Ctx) : p[1] # last'.a}
            /\ CtxAfter.epochTrie = Ctx.epochTrie
            /\ CtxAfter.mintCntTrie = Ctx.mintCntTrie]_vars

\* a candidate with two voters was kicked out and another candidate remains
KickoutCascadesWitness ==
    /\ last.op = "KickoutCandidate"
    /\ last.err = ErrNone
    /\ last.b = 2
    /\ DOMAIN Ctx.candidateTrie # {}

\* C19: if KickoutCandidate returns an error after part of its deletions (a storage
\* error other than MissingNode), RevertToSnapShot with a snapshot taken before the
\* call restores the five tries; a MissingNode error on a delete or on a vote read
\* is swallowed and never ends the call
KickoutAtomic ==
    [][/\ (/\ last.op = "KickoutCandidate"
           /\ last.err # ErrNone
           /\ ~reverted
           /\ last'.op = "RevertToSnapShot")
            => CtxAfter = sTaken
       /\ last'.op = "KickoutCandidate" => last'.err \in {ErrNone, ErrStorage}
       /\ (last.op = "Snapshot" /\ last'.op = "KickoutCandidate")
            => Deref(heap', s') = Ctx]_vars

\* a revert has restored the tries that a failed kick-out had changed in part
KickoutAtomicWitness ==
    /\ last.op = "RevertToSnapShot"
    /\ last.log = << << "KickoutCandidate", ErrStorage >> >>
    /\ last.a >= 2
    /\ Ctx = sTaken
    /\ VotePairs(Ctx) # {}

(* ==================== properties of the mint count ==================== *)
MintKey(epoch, validator) == PutUint64(epoch) \o Bytes(validator)

\* mintCnt[(epoch, validator)], 0 if there is no entry
MintCnt(c, epoch, validator) ==
    LET cntBytes == TryGet(c.mintCntTrie, MintKey(epoch, validator))
    IN IF cntBytes = Nil THEN 0 ELSE Uint64(cntBytes)

\* the blocks of the chain that validator produced in epoch
Produced(epoch, validator) ==
    {i \in 1..Len(minted.blocks) :
        /\ Quo(minted.blocks[i][1], epochInterval) = epoch
        /\ minted.blocks[i][2] = validator}

MintEpochs(c) ==
    {Quo(minted.blocks[i][1], epochInterval) : i \in 1..Len(minted.blocks)}
        \cup {k[1] : k \in DOMAIN c.mintCntTrie}

CountsAreBlocks ==
    \A epoch \in MintEpochs(Ctx), validator \in Addrs :
        MintCnt(Ctx, epoch, validator) = Cardinality(Produced(epoch, validator))

ConfirmedBefore == LoadedConfirmed(chain, confirmedBlockHeader, dbConfirmed)

\* a call of the tracker moves the confirmed pointer
Advances ==
    /\ confirmedBlockHeader' # confirmedBlockHeader
    /\ confirmedBlockHeader' # ConfirmedBefore

\* the header and the headers it descends from
Ancestry(h) == {SubSeq(h, 1, n) : n \in 0..Len(h)}

Epoch(h) == Quo(Time(h), epochInterval)

\* the validators of the headers from h up to hd that are in the epoch of h
WitnessesOf(h, hd) ==
    {Validator(x) : x \in {y \in Ancestry(hd) : HasPrefix(y, h) /\ Epoch(y) = Epoch(h)}}

\* C24: the confirmed pointer advances to a header h only when the headers from h up
\* to the head the walk started at that are in the epoch of h were produced by at
\* least consensusSize distinct validators; validators of headers of another epoch
\* do not count
AdvanceNeedsSupermajority ==
    [][Advances
         => /\ confirmedBlockHeader' \in Ancestry(head)
            /\ Cardinality(WitnessesOf(confirmedBlockHeader', head))
                  >= consensusSize(maxValidatorSize)]_vars

\* the pointer has advanced to a header below a head of a later epoch
AdvanceNeedsSupermajorityWitness ==
    /\ seal.ran
    /\ confirmedBlockHeader \notin {NilHeader, Genesis, head}
    /\ confirmedBlockHeader \in Ancestry(head)
    /\ Epoch(head) # Epoch(confirmedBlockHeader)

\* C25: for every chain, head and confirmed pointer the tracker ends with the same
\* confirmed pointer as the same walk without the fast return
FastReturnIsOptimisation ==
    \A putFails \in BOOLEAN :
        LET fast == updateConfirmedBlockHeader(chain, head, maxValidatorSize,
                                               confirmedBlockHeader, dbConfirmed, putFails)
            slow == WalkToTheEnd(chain, maxValidatorSize, ConfirmedBefore, dbConfirmed,
                                 head, -1, {}, putFails)
        IN fast.confirmed = slow.confirmed /\ fast.db = slow.db

\* the tracker has run on three headers over the genesis header, the upper two by
\* one validator, with a supermajority of three: the walk returns fast at the first
FastReturnIsOptimisationWitness ==
    /\ seal.ran
    /\ maxValidatorSize = 3
    /\ confirmedBlockHeader = Genesis
    /\ Number(head) = 3
    /\ Ancestry(head) \subseteq chain
    /\ Validator(head) = Validator(ParentHash(head))
    /\ Epoch(head) = 0

\* C26: whenever the tracker advances the confirmed pointer from a header c to a
\* header h, h descends from c
ConfirmedOnOneBranch ==
    [][Advances
         => HasPrefix(confirmedBlockHeader', ConfirmedBefore)]_vars

(* ================== properties of Seal and Authorize =================== *)
\* C21: whenever the stop signal is raised while Seal waits for its slot, Seal
\* returns no block and no error, never calls the signer, and leaves the input
\* block, its header and the state of the engine as they were
SealCancels ==
    [][/\ (sealCall.pc = "wait" /\ stop = "open" /\ stop' # "open")
            => sealCall'.pc = "stopped"
       /\ (sealCall.pc = "stopped" /\ sealCall' # sealCall)
            => /\ sealCall'.pc = "done"
               /\ sealCall'.ret = [block |-> NilPtr, err |-> ErrNone]
               /\ sealCall'.calls = 0
               /\ sealCall'.fn = NotRead
               /\ sealCall'.block = sealCall.block
               /\ sealCall'.header = sealCall.block
               /\ UNCHANGED << engineSigner, engineSignFn, mu, dposVars >>]_vars

\* a Seal that waited for its slot with a signer installed has returned after the
\* stop channel was closed during the wait
SealCancelsWitness ==
    /\ stop = "wait"
    /\ sealCall.pc = "done"
    /\ sealCall.now < sealCall.slot
    /\ engineSignFn # 0

\* C22: under any interleaving of Authorize with a concurrent Seal, Seal signs with
\* an address and a callback that one and the same Authorize call installed
SealSignsOneAuthorize ==
    (sealCall.pc = "done" /\ sealCall.calls > 0)
        => \E k \in 1..MaxAuth : sealCall.fn = k /\ sealCall.addr = << k, k >>

(* ===================== properties of VerifyHeaders ==================== *)
\* the results emitted so far are, in submission order, those of verifyHeader for
\* each header against the header submitted just before it (the first against the
\* chain's header); a worker that has exited without abort has emitted one result
\* per header; the worker never finds the results channel full
BatchInOrder ==
    /\ Len(batch.sent) <= Len(batch.headers)
    /\ \A j \in 1..Len(batch.sent) :
          batch.sent[j] =
              verifyHeader(batch.headers[j],
                           IF j = 1 THEN batch.first ELSE ParentOf(batch.headers[j - 1]),
                           ErrNone, 25, 10)
    /\ (batch.pc = "exited" /\ ~batch.abort) => Len(batch.sent) = Len(batch.headers)
    /\ batch.pc = "select" => Len(batch.results) < Len(batch.headers)

\* C23: the worker of VerifyHeaders emits results in submission order, the i-th the
\* verifyHeader outcome of the i-th header against the header submitted just before
\* it; with no abort it emits one result per header and ends without blocking, and
\* once abort is signalled it eventually exits
BatchWorker ==
    /\ []BatchInOrder
    /\ (batch.pc # "idle") ~> (batch.pc = "exited")

\* a worker has emitted the results of two headers that nobody received and has
\* exited without abort, the second header failing against the first
BatchWorkerWitness ==
    /\ batch.pc = "exited"
    /\ ~batch.abort
    /\ Len(batch.results) = 2
    /\ batch.sent[1] = ErrNone
    /\ batch.sent[2] = ErrInvalidTimestamp

(* ================== properties of the confirmation tracker ================== *)
\* a step of VerifySeal: the only step that leaves the chain and its head alone
VerifyStep == chain' = chain /\ head' = head

\* every header from the genesis header down to h is in the chain
Intact(h) == \A n \in 0..Len(h) : SubSeq(h, 1, n) \in chain

\* h is the third header above genesis and the three lie in the epoch of genesis
ThreeInOneEpoch(h) ==
    /\ Number(h) = 3
    /\ Intact(h)
    /\ Time(h) < epochInterval

ProducedByABC(h) == Cardinality({h[n][1] : n \in 1..3}) = 3

ProducedByAAB(h) == h[1][1] = h[2][1] /\ h[3][1] # h[1][1]

\* the scenario of C9 before the call: three validators, genesis confirmed
GenesisConfirmed ==
    /\ maxValidatorSize = 3
    /\ confirmedBlockHeader \in {NilHeader, Genesis}
    /\ ThreeInOneEpoch(head)

\* C8: across the calls of updateConfirmedBlockHeader, whatever the head becomes and
\* whether or not a call returns an error, the number of the confirmed header never
\* decreases
ConfirmedMonotonic ==
    [][confirmedBlockHeader # NilHeader
         => Number(confirmedBlockHeader') >= Number(confirmedBlockHeader)]_vars

\* the tracker has confirmed a header and the head is now on a fork without it
ConfirmedMonotonicWitness ==
    /\ seal.ran
    /\ confirmedBlockHeader # NilHeader
    /\ Number(confirmedBlockHeader) >= 1
    /\ ~HasPrefix(head, confirmedBlockHeader)

\* C9 as stated: with three validators and genesis confirmed, three headers of one
\* epoch by A, B, C move the confirmed header to the third header, the head, and
\* three headers by A, A, B leave it at genesis
SupermajorityToHead ==
    [][(GenesisConfirmed /\ VerifyStep)
         => /\ ProducedByABC(head) => confirmedBlockHeader' = head
            /\ ProducedByAAB(head) => confirmedBlockHeader' = Genesis]_vars

\* C9: with three validators and genesis confirmed, three headers of one epoch by
\* A, B, C move the confirmed header to the first of the three, the header that the
\* three validators have built on, and three headers by A, A, B leave it at genesis
SupermajorityToFirst ==
    [][(GenesisConfirmed /\ VerifyStep)
         => /\ ProducedByABC(head) => confirmedBlockHeader' = SubSeq(head, 1, 1)
            /\ ProducedByAAB(head) => confirmedBlockHeader' = Genesis]_vars

\* the call has confirmed the first of the three headers by A, B, C
SupermajorityWitness ==
    /\ seal.ran
    /\ maxValidatorSize = 3
    /\ ThreeInOneEpoch(head)
    /\ ProducedByABC(head)
    /\ confirmedBlockHeader = SubSeq(head, 1, 1)

\* C10: when the walk of the tracker meets a missing parent, the confirmed header
\* stays where it was and VerifySeal does not reject the header, whose signer and
\* turn are correct
NilBlockHeaderHarmless ==
    [][(VerifyStep /\ seal'.ran /\ seal'.tracker = ErrNilBlockHeader)
         => /\ confirmedBlockHeader'
                 = LoadedConfirmed(chain, confirmedBlockHeader, dbConfirmed)
            /\ seal'.err = ErrNone]_vars

(* ====================== properties of the seal check ====================== *)
\* C11: a valid header, signed by X in X's turn, whose validator field is then
\* overwritten with Y # X, is rejected with MismatchSignerAndValidator
SpoofedIsMismatch ==
    (seal.valid /\ seal.spoofed) => seal.err = ErrMismatchSignerAndValidator

(* ======================= properties of verifyHeader ======================= *)
\* the first check of the list of C12 that the header fails
FirstFailing(in) ==
    LET header == in.header
        parent == in.parent
    IN IF header.Time > in.now THEN ErrFutureBlock
       ELSE IF header.Extra < 32 THEN ErrMissingVanity
       ELSE IF header.Extra < 97 THEN ErrMissingSignature
       ELSE IF header.MixDigest # 0 THEN ErrInvalidMixDigest
       ELSE IF header.Difficulty # Big1 THEN ErrInvalidDifficulty
       ELSE IF header.UncleHash # uncleHash THEN ErrInvalidUncleHash
       ELSE IF in.forkErr # ErrNone THEN in.forkErr
       ELSE IF \/ parent = NilPtr
               \/ parent[1].Number + 1 # header.Number[1]
               \/ parent[1].Hash # header.ParentHash
       THEN ErrUnknownAncestor
       ELSE IF parent[1].Time + in.blockInterval > header.Time THEN ErrInvalidTimestamp
       ELSE ErrNone

\* C12: VerifyHeader of a header that has a number returns the error of the first
\* check that fails, in the order FutureBlock, MissingVanity, MissingSignature,
\* InvalidMixDigest, InvalidDifficulty (difficulty # 1), InvalidUncleHash, hard
\* fork, UnknownAncestor, InvalidTimestamp, and succeeds exactly when none fails
VerifyHeaderInOrder ==
    (probe.fn = "verifyHeader" /\ probe.done /\ probe.in.header.Number # NilPtr)
        => probe.out = FirstFailing(probe.in)

(* ========================= properties of the slots ======================== *)
SlotsRun == probe.fn = "slots" /\ probe.done

\* C13: for any time t and block interval I > 0, NextSlot(PrevSlot(t)+1) = NextSlot(t),
\* and PrevSlot(t) <= t < NextSlot(t) when t is not a multiple of I
SlotIdempotent ==
    SlotsRun =>
        /\ probe.out.nextOfPrev = probe.out.next
        /\ probe.in.now % probe.in.blockInterval # 0
             => probe.out.prev <= probe.in.now /\ probe.in.now < probe.out.next

\* C14: for every time t and block interval I > 0, PrevSlot(t) = floor((t-1)/I)*I and
\* NextSlot(t) = ceil(t/I)*I; with I = 10, PrevSlot(25) = 20, NextSlot(25) = 30,
\* PrevSlot(20) = 10, NextSlot(20) = 20
SlotFloorCeil ==
    SlotsRun =>
        /\ probe.out.prev = ((probe.in.now - 1) \div probe.in.blockInterval)
                                * probe.in.blockInterval
        /\ probe.out.next = (-((-probe.in.now) \div probe.in.blockInterval))
                                * probe.in.blockInterval
        /\ (probe.in.blockInterval = 10 /\ probe.in.now = 25)
             => probe.out.prev = 20 /\ probe.out.next = 30
        /\ (probe.in.blockInterval = 10 /\ probe.in.now = 20)
             => probe.out.prev = 10 /\ probe.out.next = 20

====
